---- MODULE Spec2Model ----
(***************************************************************************)
(* Model of app.py: the Flask facade over the Spotify client (get_metadata,*)
(* add_queue, skip_track, get_track_info), the token_refresher thread, the *)
(* /callback handler that starts it, and the __main__ start-up and         *)
(* shutdown sequence.                                                      *)
(***************************************************************************)
EXTENDS Integers, Sequences, FiniteSets, TLC

VARIABLES
    device_name,       \* config["SPOTIFY"]["DEVICE_NAME"]; NoDevice when the key is absent
    last,              \* the last facade request served: its inputs, upstream calls and response
    cred,              \* the token held by sp.auth_manager (token cache)
    refresher_thread,  \* the global refresher_thread: 0 (None) or a thread id
    stop_event,        \* the global stop_event
    thr,               \* the refresher threads, by id
    cb,                \* the /callback request contexts, by id
    main,              \* the __main__ block: its position and the thread it joins
    now                \* the wall clock, in seconds

vars == <<device_name, last, cred, refresher_thread, stop_event, thr, cb, main, now>>
facadeVars == <<device_name, last>>
lifeVars == <<cred, refresher_thread, stop_event, thr, cb, main, now>>

-----------------------------------------------------------------------------
(* Bounds of the model *)

MaxImages == 2
MaxThreads == 3
MaxCallbacks == 2
MaxNow == 600
TickSeconds == 150

(* Constants of the program *)

PreferredHeight == 300
RefreshMargin == 600
SleepSeconds == 300

-----------------------------------------------------------------------------
(* Values exchanged with the upstream client *)

NoDevice == "<unset>"
DeviceConfigs == {NoDevice, "", "Kitchen"}
DeviceNames == {"Kitchen", "Office"}

\* Python truthiness of the configured device name: None and "" are falsy.
Truthy(s) == s /= NoDevice /\ s /= ""

Image(u, hh, h) == [url |-> u, hasHeight |-> hh, height |-> h]
Images == {Image("u300", TRUE, PreferredHeight), Image("u640", TRUE, 640),
           Image("u300b", TRUE, PreferredHeight), Image("unoheight", FALSE, 0)}

SeqUpTo(S, n) == UNION {[1..k -> S] : k \in 0..n}
ImageLists == SeqUpTo(Images, MaxImages)

Artist(n, i) == [name |-> n, id |-> i]
ArtistLists == {<<>>, <<Artist("A", "1")>>, <<Artist("A", "1"), Artist("B", "2")>>}

Track(ar, im) ==
    [artists |-> ar, name |-> "S", id |-> "sid",
     album |-> [name |-> "Al", id |-> "aid", images |-> im]]
Tracks == {Track(ar, im) : ar \in ArtistLists, im \in ImageLists}
NoTrack == Track(<<>>, <<>>)

\* A playback result of sp.current_playback(): kind "none" is None, "empty" is
\* {}, "dict" a payload whose device, item and is_playing keys may be missing;
\* itemKind "null" is an item whose value is None.
Payload(k, hd, d, ik, t, hp, p) ==
    [kind |-> k, hasDevice |-> hd, device |-> d, itemKind |-> ik, item |-> t,
     hasPlaying |-> hp, is_playing |-> p]
NonePayload == Payload("none", FALSE, "", "missing", NoTrack, FALSE, FALSE)
EmptyPayload == Payload("empty", FALSE, "", "missing", NoTrack, FALSE, FALSE)
Devices == {<<FALSE, "">>} \cup {<<TRUE, d>> : d \in DeviceNames}
Items == {<<"missing", NoTrack>>, <<"null", NoTrack>>} \cup {<<"track", t>> : t \in Tracks}
Playings == {<<FALSE, FALSE>>, <<TRUE, FALSE>>, <<TRUE, TRUE>>}
DictPayloads ==
    {Payload("dict", dv[1], dv[2], it[1], it[2], pl[1], pl[2]) :
        dv \in Devices, it \in Items, pl \in Playings}
Payloads == {NonePayload, EmptyPayload} \cup DictPayloads

\* Python truthiness of a playback result: None and {} are falsy.
PTruthy(p) == p.kind = "dict"

\* The outcomes of an upstream call: a result, or one of the exceptions raised.
ErrorKinds == {"SpotifyException", "Timeout", "ConnectionError"}
Outcome(k, p) == [kind |-> k, playback |-> p]
PlaybackOutcomes ==
    {Outcome("ok", p) : p \in Payloads} \cup {Outcome(k, NonePayload) : k \in ErrorKinds}

-----------------------------------------------------------------------------
(* Snapshots and responses *)

Snapshot(ar, s, al, sid, aid, c, p) ==
    [artist |-> ar, song |-> s, album |-> al, songid |-> sid, albumid |-> aid,
     cover |-> c, playing |-> p]
EmptySnapshot == Snapshot(<<>>, "", "", "", "", "", FALSE)

\* raised: an exception left the handler (Flask answers 500).
Response(h, o, tid, up, r, st, cur) ==
    [handler |-> h, outcome |-> o, trackid |-> tid, upstream |-> up,
     raised |-> r, status |-> st, current |-> cur]

NoTrackId == "<none>"
TrackIds == {NoTrackId, "", "t1"}

\* Variant of the cover choice that falls back to the first image.
CoverFirstFallback(images) ==
    LET hits == {i \in DOMAIN images : images[i].hasHeight /\ images[i].height = PreferredHeight}
    IN  IF hits /= {}
        THEN [err |-> FALSE, url |-> images[CHOOSE i \in hits : \A j \in hits : i <= j].url]
        ELSE [err |-> FALSE, url |-> IF images = <<>> THEN "" ELSE images[1].url]

\* next((image["url"] for image in album["images"] if image["height"] == 300), "")
\* evaluated lazily: err is the KeyError of an image without a height met before
\* any image of the preferred height.
RECURSIVE CoverScan(_)
CoverScan(images) ==
    IF images = <<>> THEN [err |-> FALSE, url |-> ""]
    ELSE IF ~ Head(images).hasHeight THEN [err |-> TRUE, url |-> ""]
    ELSE IF Head(images).height = PreferredHeight
         THEN [err |-> FALSE, url |-> Head(images).url]
    ELSE CoverScan(Tail(images))

\* The body of get_metadata's second try block: err when it raises TypeError or
\* KeyError (all of which the handler catches).
MapPlayback(p) ==
    IF ~ PTruthy(p) \/ p.itemKind /= "track" \/ ~ p.hasPlaying
        \/ CoverScan(p.item.album.images).err
    THEN [err |-> TRUE, current |-> EmptySnapshot]
    ELSE [err |-> FALSE,
          current |-> Snapshot(p.item.artists, p.item.name, p.item.album.name,
                               p.item.id, p.item.album.id,
                               CoverScan(p.item.album.images).url, p.is_playing)]

\* Variant of the device check that ignores the configured device.
DeviceCheckOff(dn, p) == "pass"

\* device_name and (not playback or playback["device"]["name"] != device_name):
\* "raise" is the KeyError of a payload without a device.
DeviceCheck(dn, p) ==
    IF ~ Truthy(dn) THEN "pass"
    ELSE IF ~ PTruthy(p) THEN "reject"
    ELSE IF ~ p.hasDevice THEN "raise"
    ELSE IF p.device /= dn THEN "reject"
    ELSE "pass"

MetadataResponse(dn, o) ==
    IF o.kind /= "ok"
    THEN Response("metadata", o, NoTrackId, <<"current_playback">>, FALSE, 200, EmptySnapshot)
    ELSE IF DeviceCheck(dn, o.playback) = "raise"
    THEN Response("metadata", o, NoTrackId, <<"current_playback">>, TRUE, 500, EmptySnapshot)
    ELSE IF DeviceCheck(dn, o.playback) = "reject"
    THEN Response("metadata", o, NoTrackId, <<"current_playback">>, FALSE, 200, EmptySnapshot)
    ELSE Response("metadata", o, NoTrackId, <<"current_playback">>, FALSE, 200,
                  MapPlayback(o.playback).current)

Idle == Response("none", Outcome("ok", NonePayload), NoTrackId, <<>>, FALSE, 0, EmptySnapshot)

get_metadata ==
    /\ last = Idle
    /\ \E o \in PlaybackOutcomes : last' = MetadataResponse(device_name, o)
    /\ UNCHANGED <<device_name, lifeVars>>

\* The outcomes of a pass-through call (add_to_queue, next_track).
CallOutcomes == {"ok"} \cup ErrorKinds

\* Variant of the trackid check that accepts an empty trackid.
TrackIdNoneOnly(tid) == tid = NoTrackId

\* if not track_id
TrackIdMissing(tid) == tid = NoTrackId \/ tid = ""

\* add_queue: o is the outcome of current_playback, tid the trackid argument,
\* q the outcome of add_to_queue when it is called.
AddResponse(dn, o, tid, q) ==
    IF o.kind /= "ok"
    THEN Response("add", o, tid, <<"current_playback">>, FALSE, 500, EmptySnapshot)
    ELSE IF DeviceCheck(dn, o.playback) = "raise"
    THEN Response("add", o, tid, <<"current_playback">>, TRUE, 500, EmptySnapshot)
    ELSE IF DeviceCheck(dn, o.playback) = "reject"
    THEN Response("add", o, tid, <<"current_playback">>, FALSE, 400, EmptySnapshot)
    ELSE IF TrackIdMissing(tid)
    THEN Response("add", o, tid, <<"current_playback">>, FALSE, 400, EmptySnapshot)
    ELSE Response("add", o, tid, <<"current_playback", "add_to_queue">>, FALSE,
                  IF q = "ok" THEN 200 ELSE 400, EmptySnapshot)

add_queue ==
    /\ last = Idle
    /\ \E o \in PlaybackOutcomes, tid \in TrackIds, q \in CallOutcomes :
          last' = AddResponse(device_name, o, tid, q)
    /\ UNCHANGED <<device_name, lifeVars>>

\* skip_track: o is the outcome of current_playback, q the outcome of
\* next_track when it is called.
SkipResponse(dn, o, q) ==
    IF o.kind /= "ok"
    THEN Response("skip", o, NoTrackId, <<"current_playback">>, FALSE, 400, EmptySnapshot)
    ELSE IF ~ PTruthy(o.playback)
    THEN Response("skip", o, NoTrackId, <<"current_playback">>, FALSE, 400, EmptySnapshot)
    ELSE IF ~ o.playback.hasDevice
    THEN Response("skip", o, NoTrackId, <<"current_playback">>, TRUE, 500, EmptySnapshot)
    ELSE IF Truthy(dn) /\ o.playback.device /= dn
    THEN Response("skip", o, NoTrackId, <<"current_playback">>, FALSE, 400, EmptySnapshot)
    ELSE Response("skip", o, NoTrackId, <<"current_playback", "next_track">>, FALSE,
                  IF q = "ok" THEN 200 ELSE 400, EmptySnapshot)

skip_track ==
    /\ last = Idle
    /\ \E o \in PlaybackOutcomes, q \in CallOutcomes :
          last' = SkipResponse(device_name, o, q)
    /\ UNCHANGED <<device_name, lifeVars>>

\* The outcomes of sp.track(track_id): a track (carried as the item of a
\* payload), or an exception.
TrackPayload(t) == Payload("dict", FALSE, "", "track", t, FALSE, FALSE)
TrackOutcomes ==
    {Outcome("ok", TrackPayload(t)) : t \in Tracks}
        \cup {Outcome(k, NonePayload) : k \in ErrorKinds}

\* get_track_info: the track's fields with the cover chosen as in get_metadata;
\* the KeyError of an image without a height is not caught here.
TrackInfoResponse(tid, o) ==
    IF TrackIdMissing(tid)
    THEN Response("trackinfo", o, tid, <<>>, FALSE, 400, EmptySnapshot)
    ELSE IF o.kind /= "ok"
    THEN Response("trackinfo", o, tid, <<"track">>, FALSE, 400, EmptySnapshot)
    ELSE IF CoverScan(o.playback.item.album.images).err
    THEN Response("trackinfo", o, tid, <<"track">>, TRUE, 500, EmptySnapshot)
    ELSE Response("trackinfo", o, tid, <<"track">>, FALSE, 200,
                  Snapshot(o.playback.item.artists, o.playback.item.name,
                           o.playback.item.album.name, o.playback.item.id,
                           o.playback.item.album.id,
                           CoverScan(o.playback.item.album.images).url, FALSE))

get_track_info ==
    /\ last = Idle
    /\ \E tid \in TrackIds, o \in TrackOutcomes : last' = TrackInfoResponse(tid, o)
    /\ UNCHANGED <<device_name, lifeVars>>

\* The response is sent and the next request can be served.
respond ==
    /\ last /= Idle
    /\ last' = Idle
    /\ UNCHANGED <<device_name, lifeVars>>

FacadeInit ==
    /\ device_name \in DeviceConfigs
    /\ last = Idle
    /\ cred = [present |-> FALSE, refresh_token |-> FALSE, hasExpiry |-> FALSE, expires_at |-> 0]
    /\ refresher_thread = 0
    /\ stop_event = FALSE
    /\ thr = [t \in 1..MaxThreads |->
                [pc |-> "none", token_info |-> cred, tnow |-> 0, calls |-> 0,
                 res |-> "none", wakeAt |-> 0, failed |-> FALSE]]
    /\ cb = [c \in 1..MaxCallbacks |-> [pc |-> "idle", t |-> 0]]
    /\ main = [pc |-> "start", target |-> 0]
    /\ now = 0

FacadeNext ==
    \/ get_metadata
    \/ add_queue
    \/ skip_track
    \/ get_track_info
    \/ respond

FacadeSpec == FacadeInit /\ [][FacadeNext]_vars

-----------------------------------------------------------------------------
(* The credential, the refresher thread, /callback and __main__ *)

Token(p, r, he, e) == [present |-> p, refresh_token |-> r, hasExpiry |-> he, expires_at |-> e]
NoToken == Token(FALSE, FALSE, FALSE, 0)

\* What token_cache.txt may hold when the process starts.
CachedTokens ==
    {NoToken, Token(TRUE, TRUE, TRUE, 300), Token(TRUE, TRUE, TRUE, 1200),
     Token(TRUE, FALSE, TRUE, 300), Token(TRUE, TRUE, FALSE, 0)}

\* The lifetimes (seconds) the authorization server may grant.
ExpiresIn == {900}
Granted(e) == Token(TRUE, TRUE, TRUE, now + e)

Threads == 1..MaxThreads
Callbacks == 1..MaxCallbacks

\* A refresher thread: its position, the locals token_info and now of the
\* current period, and a record of the period (refresh calls made, how it
\* ended) and of whether an earlier period ended in an error.
ThreadState(pc, tok, tn, c, r, w, f) ==
    [pc |-> pc, token_info |-> tok, tnow |-> tn, calls |-> c, res |-> r, wakeAt |-> w,
     failed |-> f]
Unborn == ThreadState("none", NoToken, 0, 0, "none", 0, FALSE)
\* A thread at the loop condition of token_refresher.
AtLoop(f) == ThreadState("while", NoToken, 0, 0, "none", 0, f)

\* Thread.is_alive(): started and not yet finished.
is_alive(t) == thr[t].pc \notin {"none", "new", "dead"}

\* Variant of the refresh condition with the margin included.
NeedsRefreshInclusive(tok, tn) ==
    /\ tok.present
    /\ tok.refresh_token
    /\ tok.hasExpiry
    /\ tok.expires_at - tn <= RefreshMargin

\* The conditions under which token_refresher calls refresh_access_token.
NeedsRefresh(tok, tn) ==
    /\ tok.present
    /\ tok.refresh_token
    /\ tok.hasExpiry
    /\ tok.expires_at - tn < RefreshMargin

\* while not stop_event.is_set()
refresher_test(t) ==
    /\ thr[t].pc = "while"
    /\ thr' = [thr EXCEPT ![t].pc = IF stop_event THEN "dead" ELSE "read"]
    /\ UNCHANGED <<facadeVars, cred, refresher_thread, stop_event, cb, main, now>>

\* The state of a thread whose period ended with result r: it enters
\* time.sleep(300).
Sleeping(s, r) ==
    [s EXCEPT !.pc = "sleep", !.res = r, !.wakeAt = now + SleepSeconds,
              !.failed = s.failed \/ r \in {"fail", "readerr"}]

\* The try body up to the decision to refresh; raises is an exception raised
\* while reading the credential, caught by the outer except.
refresher_read(t) ==
    /\ thr[t].pc = "read"
    /\ \E raises \in BOOLEAN :
          thr' = [thr EXCEPT ![t] =
                    IF raises THEN Sleeping(thr[t], "readerr")
                    ELSE IF NeedsRefresh(cred, now)
                    THEN [thr[t] EXCEPT !.pc = "refresh", !.token_info = cred, !.tnow = now]
                    ELSE Sleeping([thr[t] EXCEPT !.token_info = cred, !.tnow = now], "skip")]
    /\ UNCHANGED <<facadeVars, cred, refresher_thread, stop_event, cb, main, now>>

\* The credential after refresh_access_token: replaced when the call succeeds,
\* left as it was when the call raises.
AfterRefresh(ok, e) == IF ok THEN Granted(e) ELSE cred

\* Variant in which a failed refresh ends the thread.
AfterCallDies(s, ok) ==
    IF ok THEN Sleeping([s EXCEPT !.calls = s.calls + 1], "ok")
    ELSE [s EXCEPT !.pc = "dead", !.calls = s.calls + 1, !.res = "fail", !.failed = TRUE]

\* The thread after refresh_access_token returned or raised: the inner except
\* swallows the error and the loop goes on to its sleep.
AfterCall(s, ok) == Sleeping([s EXCEPT !.calls = s.calls + 1], IF ok THEN "ok" ELSE "fail")

\* sp.auth_manager.refresh_access_token(token_info["refresh_token"])
refresher_refresh(t) ==
    /\ thr[t].pc = "refresh"
    /\ \E ok \in BOOLEAN, e \in ExpiresIn :
          /\ cred' = AfterRefresh(ok, e)
          /\ thr' = [thr EXCEPT ![t] = AfterCall(thr[t], ok)]
    /\ UNCHANGED <<facadeVars, refresher_thread, stop_event, cb, main, now>>

\* time.sleep(300) returns once the period has elapsed, whatever stop_event is.
SleepOver(s) == now >= s.wakeAt

refresher_wake(t) ==
    /\ thr[t].pc = "sleep"
    /\ SleepOver(thr[t])
    /\ thr' = [thr EXCEPT ![t] = AtLoop(thr[t].failed)]
    /\ UNCHANGED <<facadeVars, cred, refresher_thread, stop_event, cb, main, now>>

\* Time passes.
tick ==
    /\ now + TickSeconds <= MaxNow
    /\ now' = now + TickSeconds
    /\ UNCHANGED <<facadeVars, cred, refresher_thread, stop_event, thr, cb, main>>

\* A thread id not yet used for a Thread object.
FreshThread == CHOOSE t \in Threads : thr[t].pc = "none" /\ \A u \in 1..(t - 1) : thr[u].pc /= "none"

\* /callback up to the token exchange: without a code, or when
\* get_access_token raises, the handler only reports the error.
callback_exchange(c) ==
    /\ main.pc = "run"
    /\ cb[c].pc = "idle"
    /\ \E code \in BOOLEAN, ok \in BOOLEAN, e \in ExpiresIn :
          IF code /\ ok
          THEN /\ cred' = Granted(e)
               /\ cb' = [cb EXCEPT ![c].pc = "check"]
          ELSE /\ cred' = cred
               /\ cb' = [cb EXCEPT ![c].pc = "done"]
    /\ UNCHANGED <<facadeVars, refresher_thread, stop_event, thr, main, now>>

\* if not refresher_thread or not refresher_thread.is_alive()
MayStart == refresher_thread = 0 \/ ~ is_alive(refresher_thread)

callback_check(c) ==
    /\ cb[c].pc = "check"
    /\ cb' = [cb EXCEPT ![c].pc = IF MayStart THEN "create" ELSE "done"]
    /\ UNCHANGED <<facadeVars, cred, refresher_thread, stop_event, thr, main, now>>

\* refresher_thread = Thread(target=token_refresher, args=(stop_event,))
callback_create(c) ==
    /\ cb[c].pc = "create"
    /\ \E t \in Threads : thr[t].pc = "none"
    /\ thr' = [thr EXCEPT ![FreshThread].pc = "new"]
    /\ refresher_thread' = FreshThread
    /\ cb' = [cb EXCEPT ![c] = [pc |-> "start", t |-> FreshThread]]
    /\ UNCHANGED <<facadeVars, cred, stop_event, main, now>>

\* refresher_thread.start(): the global is read again.
callback_start(c) ==
    /\ cb[c].pc = "start"
    /\ thr' = [thr EXCEPT ![refresher_thread] =
                 IF thr[refresher_thread].pc = "new" THEN AtLoop(FALSE) ELSE @]
    /\ cb' = [cb EXCEPT ![c].pc = "done"]
    /\ UNCHANGED <<facadeVars, cred, refresher_thread, stop_event, main, now>>

\* __main__ before app.run: with a cached token that is not expired the
\* refresher is started; otherwise (or on any exception) the browser is opened.
main_start ==
    /\ main.pc = "start"
    /\ \E valid \in BOOLEAN :
          IF valid /\ cred.present
          THEN /\ refresher_thread' = 1
               /\ thr' = [thr EXCEPT ![1] = AtLoop(FALSE)]
          ELSE UNCHANGED <<refresher_thread, thr>>
    /\ main' = [main EXCEPT !.pc = "run"]
    /\ UNCHANGED <<facadeVars, cred, stop_event, cb, now>>

\* app.run returns or raises; finally: stop_event.set()
main_stop ==
    /\ main.pc = "run"
    /\ stop_event' = TRUE
    /\ main' = [main EXCEPT !.pc = "check"]
    /\ UNCHANGED <<facadeVars, cred, refresher_thread, thr, cb, now>>

\* if refresher_thread and refresher_thread.is_alive()
main_check ==
    /\ main.pc = "check"
    /\ main' = [main EXCEPT !.pc = IF refresher_thread /= 0 /\ is_alive(refresher_thread)
                                   THEN "join" ELSE "done"]
    /\ UNCHANGED <<facadeVars, cred, refresher_thread, stop_event, thr, cb, now>>

\* refresher_thread.join() is called on the thread the global names now; on a
\* thread not yet started it raises RuntimeError and __main__ ends.
main_join ==
    /\ main.pc = "join"
    /\ main' = IF thr[refresher_thread].pc = "new" THEN [main EXCEPT !.pc = "done"]
               ELSE [pc |-> "joining", target |-> refresher_thread]
    /\ UNCHANGED <<facadeVars, cred, refresher_thread, stop_event, thr, cb, now>>

\* join() returns when the joined thread has finished; executor.shutdown
\* follows and the shutdown is complete.
main_joined ==
    /\ main.pc = "joining"
    /\ thr[main.target].pc = "dead"
    /\ main' = [main EXCEPT !.pc = "done"]
    /\ UNCHANGED <<facadeVars, cred, refresher_thread, stop_event, thr, cb, now>>

Init ==
    /\ device_name = NoDevice
    /\ last = Idle
    /\ cred \in CachedTokens
    /\ refresher_thread = 0
    /\ stop_event = FALSE
    /\ thr = [t \in Threads |-> Unborn]
    /\ cb = [c \in Callbacks |-> [pc |-> "idle", t |-> 0]]
    /\ main = [pc |-> "start", target |-> 0]
    /\ now = 0

Next ==
    \/ main_start
    \/ main_stop
    \/ main_check
    \/ main_join
    \/ main_joined
    \/ \E c \in Callbacks : callback_exchange(c)
    \/ \E c \in Callbacks : callback_check(c)
    \/ \E c \in Callbacks : callback_create(c)
    \/ \E c \in Callbacks : callback_start(c)
    \/ \E t \in Threads : refresher_test(t)
    \/ \E t \in Threads : refresher_read(t)
    \/ \E t \in Threads : refresher_refresh(t)
    \/ \E t \in Threads : refresher_wake(t)
    \/ tick

Spec == Init /\ [][Next]_vars

-----------------------------------------------------------------------------
(* Properties of the facade (FacadeSpec) *)

Range(f) == {f[i] : i \in DOMAIN f}
FilterSet == device_name /= NoDevice /\ device_name /= ""

\* C1: serving GET /metadata performs no upstream call on the request path.
C1_NoUpstreamOnRead == last.handler = "metadata" => last.upstream = <<>>

\* The upstream outcomes that carry no usable playback: an exception, an
\* absent result, or a payload without an item.
NoPlayback(o) ==
    \/ o.kind /= "ok"
    \/ o.playback.kind /= "dict"
    \/ o.playback.itemKind /= "track"

\* C2: a playback-state read never raises, and on every failed or unusable
\* upstream outcome, with or without a device filter, it answers the canonical
\* empty snapshot.
C2_ReadNeverRaises ==
    last.handler = "metadata" =>
        /\ ~ last.raised
        /\ last.status = 200
        /\ NoPlayback(last.outcome) => last.current = EmptySnapshot

\* A successful upstream result: absent, or a payload carrying its device, a
\* track with well-formed images, and its playing flag.
Succeeded(o) ==
    /\ o.kind = "ok"
    /\ \/ o.playback.kind /= "dict"
       \/ /\ o.playback.hasDevice
          /\ o.playback.itemKind = "track"
          /\ o.playback.hasPlaying
          /\ \A i \in DOMAIN o.playback.item.album.images :
                o.playback.item.album.images[i].hasHeight

\* The fields of a mapped snapshot other than the cover.
MappedFrom(cur, p) ==
    /\ cur.artist = p.item.artists
    /\ cur.song = p.item.name
    /\ cur.album = p.item.album.name
    /\ cur.songid = p.item.id
    /\ cur.albumid = p.item.album.id
    /\ cur.playing = p.is_playing
    /\ cur /= EmptySnapshot

\* C3: with a device filter configured and a successful upstream call, readers
\* see the mapped snapshot (with the reported playing flag) if and only if a
\* result is present and its device name equals the filter; otherwise they see
\* the canonical empty snapshot.
C3_DeviceFilter ==
    (last.handler = "metadata" /\ FilterSet /\ Succeeded(last.outcome)) =>
        /\ ~ last.raised
        /\ IF last.outcome.playback.kind = "dict"
               /\ last.outcome.playback.device = device_name
           THEN MappedFrom(last.current, last.outcome.playback)
           ELSE last.current = EmptySnapshot

C3_Witness ==
    /\ last.handler = "metadata"
    /\ device_name = "Kitchen"
    /\ Succeeded(last.outcome)
    /\ last.outcome.playback.kind = "dict"
    /\ last.outcome.playback.device = "Kitchen"
    /\ last.current.song = "S"
    /\ last.current.playing

\* The responses that carry a mapped snapshot, from /metadata or /trackinfo.
IsMapped ==
    /\ last.handler \in {"metadata", "trackinfo"}
    /\ last.status = 200
    /\ ~ last.raised
    /\ last.current /= EmptySnapshot

AlbumImages == last.outcome.playback.item.album.images
PreferredIdx == {i \in DOMAIN AlbumImages : AlbumImages[i].height = PreferredHeight}

\* C6 as stated: the cover is the URL of an image of the preferred height when
\* one exists, and otherwise the URL of the first image (empty only when the
\* list is empty).
C6_CoverFallsBackToFirst ==
    IsMapped =>
        IF PreferredIdx /= {}
        THEN \E i \in PreferredIdx : last.current.cover = AlbumImages[i].url
        ELSE IF AlbumImages = <<>> THEN last.current.cover = ""
        ELSE last.current.cover = AlbumImages[1].url

\* C6 as amended: the cover is the URL of the first image of the preferred
\* height when one exists, and otherwise the empty string.
C6_CoverPreferredOrEmpty ==
    IsMapped =>
        IF PreferredIdx /= {}
        THEN \E i \in PreferredIdx :
                /\ \A j \in PreferredIdx : i <= j
                /\ last.current.cover = AlbumImages[i].url
        ELSE last.current.cover = ""

C6_Witness ==
    /\ IsMapped
    /\ AlbumImages /= <<>>
    /\ PreferredIdx = {}
    /\ last.current.cover = ""

\* The playback fetched by the request is present and reports the configured
\* device.
OnConfiguredDevice ==
    /\ last.outcome.kind = "ok"
    /\ last.outcome.playback.kind = "dict"
    /\ last.outcome.playback.hasDevice
    /\ last.outcome.playback.device = device_name

\* C10: with a filter configured, /add enqueues and /skip skips only if the
\* playback fetched in the same request is present and reports the configured
\* device; /add never enqueues without a non-empty trackid; /skip never skips
\* without an active playback, filter or not.
C10_PassThroughGuarded ==
    /\ (last.handler = "add" /\ "add_to_queue" \in Range(last.upstream)) =>
          /\ last.trackid \notin {NoTrackId, ""}
          /\ FilterSet => OnConfiguredDevice
    /\ (last.handler = "skip" /\ "next_track" \in Range(last.upstream)) =>
          /\ last.outcome.kind = "ok"
          /\ last.outcome.playback.kind = "dict"
          /\ FilterSet => OnConfiguredDevice

C10_Witness ==
    /\ FilterSet
    /\ \/ last.handler = "add" /\ "add_to_queue" \in Range(last.upstream)
       \/ last.handler = "skip" /\ "next_track" \in Range(last.upstream)
    /\ last.status = 200

-----------------------------------------------------------------------------
(* Properties of the refresher and of the lifecycle (Spec) *)

\* C4: at any time at most one refresher loop is running.
C4_AtMostOneRefresher == Cardinality({t \in Threads : is_alive(t)}) <= 1

\* A step in which thread t calls refresh_access_token.
RefreshCall(t) == thr[t].pc = "refresh" /\ thr'[t].pc /= "refresh"

\* C5: the stop signal is set before shutdown waits, and once shutdown is
\* complete no refresher issues a refresh call or replaces the credential.
C5_QuietAfterShutdown ==
    /\ [](main.pc \in {"check", "join", "joining", "done"} => stop_event)
    /\ [][main.pc = "done" => /\ \A t \in Threads : ~ RefreshCall(t)
                              /\ cred' = cred]_vars

\* A step in which thread t ends a period with an error: a failed refresh, or
\* an error raised while reading the credential.
FailedPeriod(t) ==
    /\ thr[t].pc \in {"read", "refresh"}
    /\ thr'[t].pc /= thr[t].pc
    /\ thr'[t].res \in {"fail", "readerr"}

\* C7: a failed refresh, or an error raised while reading the credential,
\* leaves the credential as it was and sends the loop to its next period; the
\* loop ends only at its loop condition with the stop signal set.
C7_FailureKeepsLoop ==
    [][\A t \in Threads :
          /\ FailedPeriod(t) => (thr'[t].pc = "sleep" /\ cred' = cred)
          /\ (thr[t].pc = "sleep" /\ thr'[t].pc /= "sleep") => thr'[t].pc = "while"
          /\ (thr[t].pc = "while" /\ ~ stop_event) => thr'[t].pc \in {"while", "read"}
          /\ (thr[t].pc /= "dead" /\ thr'[t].pc = "dead") =>
                (stop_event /\ thr[t].pc = "while")]_vars

\* A refresher that failed in an earlier period attempts a refresh again.
C7_Witness ==
    \E t \in Threads : thr[t].failed /\ thr[t].pc = "refresh" /\ ~ stop_event

\* C8: a refresher in its sleep with the stop signal set can leave the sleep
\* at once, whatever remains of the period.
C8_SleepInterruptible ==
    \A t \in Threads : (thr[t].pc = "sleep" /\ stop_event) => ENABLED refresher_wake(t)

\* The credential read in the period exists, carries a refresh token and has
\* fewer than 600 seconds left at the time it was read.
Due(s) ==
    /\ s.res /= "readerr"
    /\ s.token_info.present
    /\ s.token_info.refresh_token
    /\ s.token_info.hasExpiry
    /\ s.token_info.expires_at - s.tnow < RefreshMargin

\* C9: a period issues exactly one refresh call when the credential is due and
\* none otherwise; with no credential the period changes no state but the
\* thread's own position.
C9_OneRefreshWhenDue ==
    /\ [](\A t \in Threads :
            thr[t].pc = "sleep" => thr[t].calls = IF Due(thr[t]) THEN 1 ELSE 0)
    /\ [][\A t \in Threads :
            (thr[t].pc = "read" /\ thr'[t] /= thr[t] /\ ~ cred.present) =>
                /\ thr'[t].pc = "sleep"
                /\ thr'[t].calls = 0
                /\ cred' = cred
                /\ refresher_thread' = refresher_thread
                /\ stop_event' = stop_event]_vars

C9_Witness ==
    \E t \in Threads : thr[t].pc = "sleep" /\ thr[t].calls = 1 /\ thr[t].res = "ok"
====
